---- MODULE Spec2Model ----
(***************************************************************************)
(* Model of ts-transform-import-to-lazy-async-import (src/src/index.ts):   *)
(* the transformer that replaces imports of React components by lazy       *)
(* bindings.  A source file is a sequence of top-level statements; the     *)
(* transform gates on the file, selects candidate imports, and visits the  *)
(* statements one by one, replacing each candidate by the statements       *)
(* visitNode returns.                                                      *)
(*                                                                         *)
(* Identifiers and file names are sequences of one-character strings so    *)
(* that text[0], toUpperCase, escapedText and indexOf are computed.        *)
(***************************************************************************)
EXTENDS Integers, Sequences, FiniteSets, TLC

VARIABLES sourceFile, options, program, pc, potentialComponentImports,
          next, returns, out, calls

vars == <<sourceFile, options, program, pc, potentialComponentImports,
          next, returns, out, calls>>

(***************************************************************************)
(* Bounds of the model.                                                    *)
(***************************************************************************)
\* most elements in the braces of one import statement
MaxElems == 2
\* most statements in front of the import statement under study
MaxPre == 1
\* most parameters of an exported function
MaxParams == 3
\* most call signatures (overloads) of an exported function
MaxSignatures == 2
\* most statements of a file of the walk specification
MaxStmts == 3

(***************************************************************************)
(* Text.                                                                   *)
(***************************************************************************)
\* an absent identifier (undefined in the source)
NoName == <<>>

nFoo == <<"F", "o", "o">>
nHlp == <<"h", "l", "p">>
nUuC == <<"_", "_", "C">>
nReact == <<"R", "e", "a", "c", "t">>
nNS == <<"N", "S">>
nDefault == <<"d", "e", "f", "a", "u", "l", "t">>

\* the local and exported names import statements are built from
Names == {nFoo, nHlp, nUuC}

\* String.prototype.toUpperCase on one character
toUpperCase(ch) ==
  CASE ch = "a" -> "A" [] ch = "c" -> "C" [] ch = "d" -> "D"
    [] ch = "e" -> "E" [] ch = "f" -> "F" [] ch = "h" -> "H"
    [] ch = "l" -> "L" [] ch = "o" -> "O" [] ch = "p" -> "P"
    [] ch = "s" -> "S" [] ch = "t" -> "T" [] ch = "u" -> "U"
    [] ch = "r" -> "R"
    [] OTHER -> ch

\* Identifier.escapedText: TypeScript stores an identifier that begins with
\* two underscores with a third one in front; Identifier.text is the
\* identifier as written.
escapedText(text) ==
  IF Len(text) >= 2 /\ text[1] = "_" /\ text[2] = "_" THEN <<"_">> \o text ELSE text

\* String.prototype.indexOf(sub), zero-based, -1 when sub does not occur
indexOf(s, sub) ==
  LET hits == {i \in 1..(Len(s) - Len(sub) + 1) : SubSeq(s, i, i + Len(sub) - 1) = sub}
  IN IF hits = {} THEN -1 ELSE (CHOOSE i \in hits : \A j \in hits : i <= j) - 1

\* Array.prototype.indexOf(x) !== -1
includes(arr, x) == \E i \in 1..Len(arr) : arr[i] = x

dotDTs == <<".", "d", ".", "t", "s">>
FileNames == {<<"a", ".", "t", "s", "x">>, <<"a", ".", "d", ".", "t", "s">>}

ModuleSpecifiers == {"react", "./m"}

(***************************************************************************)
(* Syntax trees.                                                           *)
(***************************************************************************)
\* ts.ImportSpecifier: `name` or `propertyName as name`
ImportSpecifier(propertyName, name) == [propertyName |-> propertyName, name |-> name]

NoBindings == [kind |-> "none", name |-> NoName, elements |-> <<>>]
NamespaceImport(name) == [kind |-> "NamespaceImport", name |-> name, elements |-> <<>>]
NamedImports(elements) == [kind |-> "NamedImports", name |-> NoName, elements |-> elements]

\* ts.ImportClause; present = FALSE is `import "m"`
NoClause == [present |-> FALSE, name |-> NoName, namedBindings |-> NoBindings]
ImportClause(name, namedBindings) ==
  [present |-> TRUE, name |-> name, namedBindings |-> namedBindings]

\* ts.ImportDeclaration; pos is the node's position in the file, -1 for a
\* node the transform synthesizes
ImportDeclaration(pos, importClause, moduleSpecifier) ==
  [kind |-> "ImportDeclaration", pos |-> pos, importClause |-> importClause,
   moduleSpecifier |-> moduleSpecifier, declName |-> NoName, thenProperty |-> NoName,
   body |-> <<>>]

\* any statement that is not an import declaration and has no statements
\* inside it
OtherStatement(pos) ==
  [kind |-> "Other", pos |-> pos, importClause |-> NoClause, moduleSpecifier |-> "",
   declName |-> NoName, thenProperty |-> NoName, body |-> <<>>]

\* a statement with statements inside it, such as
\* `declare module "x" { import Foo from "./m" }`; body are the nested nodes
ModuleDeclaration(pos, body) ==
  [kind |-> "ModuleDeclaration", pos |-> pos, importClause |-> NoClause,
   moduleSpecifier |-> "", declName |-> NoName, thenProperty |-> NoName,
   body |-> body]

isImportDeclaration(node) == node.kind = "ImportDeclaration"
isNamedImports(nb) == nb.kind = "NamedImports"


\* the lazy binding `const declName = wrapper(() => import(moduleSpecifier)...)`;
\* thenProperty is NoName for the bare dynamic import, and P for the
\* continuation `.then(m => ({ default: m.P }))`
VariableStatement(declName, moduleSpecifier, thenProperty) ==
  [kind |-> "VariableStatement", pos |-> -1, importClause |-> NoClause,
   moduleSpecifier |-> moduleSpecifier, declName |-> declName,
   thenProperty |-> thenProperty, body |-> <<>>]

\* the statement options.createImportDeclaration returns when it is implemented
AdditionalImport ==
  [kind |-> "AdditionalImport", pos |-> -1, importClause |-> NoClause,
   moduleSpecifier |-> "wrapper", declName |-> NoName, thenProperty |-> NoName,
   body |-> <<>>]

(***************************************************************************)
(* Calls to the collaborators, recorded in the order the code makes them.  *)
(***************************************************************************)
Call(op, pos, identifier) == [op |-> op, pos |-> pos, identifier |-> identifier]

(***************************************************************************)
(* Classification.  `program` is the ts.Program handed to transformer:     *)
(* program.supplied says whether one was passed at all, and                *)
(* program.modules[m] is what its type checker knows of module m: whether  *)
(* the specifier resolves, and the declaration behind each exported name.  *)
(***************************************************************************)
\* the symbol of a return type: its name and the name of its parent symbol,
\* "" where there is none
TypeSymbol(name, parent) == [name |-> name, parent |-> parent]
NoSymbol == TypeSymbol("", "")

\* the expression of an extends clause: `object.name`, or the identifier
\* `name` when object is ""
Extends(object, name) == [object |-> object, name |-> name]
NoExtends == Extends("", "")

\* the declaration behind an exported symbol.  heritage is "none" (no
\* heritage clauses), "implements" (clauses without extends) or "extends";
\* initializer is the kind of the expression of an export assignment or of
\* the (first) variable declaration; parameters counts the parameters of
\* the function node; callSignatures lists the return type symbols of the
\* call signatures of the symbol's type
Declaration(kind, heritage, base, initializer, parameters, callSignatures) ==
  [kind |-> kind, heritage |-> heritage, base |-> base, initializer |-> initializer,
   parameters |-> parameters, callSignatures |-> callSignatures]

\* symbol.valueDeclaration is undefined for a symbol that only has a type meaning
hasValueDeclaration(decl) == decl.kind # "InterfaceDeclaration"

isFunctionLike(kind) == kind \in {"ArrowFunction", "FunctionExpression"}

\* whether getFunction returns a function node (rather than null)
getFunction(decl) ==
  CASE decl.kind = "FunctionDeclaration" -> TRUE
    [] decl.kind = "ExportAssignment" -> isFunctionLike(decl.initializer)
    [] decl.kind \in {"VariableStatement", "VariableDeclaration"} ->
         decl.initializer # "none" /\ isFunctionLike(decl.initializer)
    [] OTHER -> FALSE

extendsReactComponent(base) == base.object = "React" /\ base.name = "Component"

\* a parameter list of at most two parameters, the empty one included
takesAtMostTwo(parameters) == parameters <= 2

\* props and context
takesPropsAndContext(parameters) == parameters = 1 \/ parameters = 2

isComponentType(identifier, importDecl) ==
  LET module == program.modules[importDecl.moduleSpecifier] IN
  IF module.resolved /\ identifier \in DOMAIN module.exports
     /\ hasValueDeclaration(module.exports[identifier])
  THEN
    LET decl == module.exports[identifier] IN
    IF decl.kind = "ClassDeclaration" /\ decl.heritage # "none"
    THEN decl.heritage = "extends" /\ extendsReactComponent(decl.base)
    ELSE /\ getFunction(decl)
         /\ Len(decl.callSignatures) > 0
         /\ takesPropsAndContext(decl.parameters)
         /\ decl.callSignatures[1].name = "Element"
         /\ decl.callSignatures[1].parent = "JSX"
  ELSE FALSE

exportedName(element) ==
  IF element.propertyName # NoName THEN element.propertyName ELSE element.name

\* an element test that also asks for an uppercase-led local name
elementIsUppercaseLedComponent(element, importDecl) ==
  /\ element.name[1] = toUpperCase(element.name[1])
  /\ isComponentType(exportedName(element), importDecl)

\* the test of the loop over the elements: the exported name classifies
elementIsComponent(element, importDecl) ==
  isComponentType(exportedName(element), importDecl)

\* the names of the elements, in order, whose exported name classifies
RECURSIVE classifiedElements(_, _)
classifiedElements(elements, importDecl) ==
  IF elements = <<>> THEN <<>>
  ELSE (IF elementIsComponent(Head(elements), importDecl)
          THEN <<Head(elements).name>> ELSE <<>>)
       \o classifiedElements(Tail(elements), importDecl)

\* the component names with the named bindings ahead of the default name
getImportedReactComponentsNamedFirst(importDecl, opts) ==
  LET clause == importDecl.importClause
      fromDefault ==
        IF clause.present /\ clause.name # NoName /\ isComponentType(nDefault, importDecl)
          THEN <<clause.name>> ELSE <<>>
      fromNamed ==
        IF clause.present /\ ~opts.onlyRewriteDefaultExports
           /\ isNamedImports(clause.namedBindings)
          THEN classifiedElements(clause.namedBindings.elements, importDecl)
          ELSE <<>>
  IN fromNamed \o fromDefault

getImportedReactComponents(importDecl, opts) ==
  LET clause == importDecl.importClause
      fromDefault ==
        IF clause.present /\ clause.name # NoName /\ isComponentType(nDefault, importDecl)
          THEN <<clause.name>> ELSE <<>>
      fromNamed ==
        IF clause.present /\ ~opts.onlyRewriteDefaultExports
           /\ isNamedImports(clause.namedBindings)
          THEN classifiedElements(clause.namedBindings.elements, importDecl)
          ELSE <<>>
  IN fromDefault \o fromNamed

\* the isComponentType calls getImportedReactComponents makes, in order
classificationCalls(importDecl, opts) ==
  LET clause == importDecl.importClause
      els == clause.namedBindings.elements
      forDefault ==
        IF clause.present /\ clause.name # NoName
          THEN <<Call("isComponentType", importDecl.pos, nDefault)>> ELSE <<>>
      forNamed ==
        IF clause.present /\ ~opts.onlyRewriteDefaultExports
           /\ isNamedImports(clause.namedBindings)
          THEN [i \in 1..Len(els) |->
                  Call("isComponentType", importDecl.pos, exportedName(els[i]))]
          ELSE <<>>
  IN forDefault \o forNamed


(***************************************************************************)
(* Rewrite of one statement.                                               *)
(***************************************************************************)
removeImportNames(namedBindings, importNamesToRemove) ==
  [namedBindings EXCEPT !.elements =
     SelectSeq(namedBindings.elements,
               LAMBDA e : ~includes(importNamesToRemove, exportedName(e)))]

\* what visitNode hands back: the node itself, an array of statements, or
\* a TypeError raised while reading a property of undefined
ReturnNode(node, made) == [kind |-> "node", nodes |-> <<node>>, calls |-> made]
ReturnArray(nodes, made) == [kind |-> "array", nodes |-> nodes, calls |-> made]
Throw(made) == [kind |-> "throw", nodes |-> <<>>, calls |-> made]

\* `namedBindings.elements` read through the cast to ts.NamedImports:
\* "undefined" when the clause has no named bindings (the read throws),
\* "noElements" for a namespace import (the value is undefined and the
\* next property read on it throws), "array" for named imports
elementsRead(namedBindings) ==
  CASE namedBindings.kind = "none" -> "undefined"
    [] namedBindings.kind = "NamespaceImport" -> "noElements"
    [] OTHER -> "array"

\* the first element whose escaped local name equals c, or 0
findElement(elements, c) ==
  LET hits == {i \in 1..Len(elements) : escapedText(elements[i].name) = c}
  IN IF hits = {} THEN 0 ELSE CHOOSE i \in hits : \A j \in hits : i <= j

\* whether building the loader of component name c throws
arrowBodyThrows(node, defaultImportName, c) ==
  defaultImportName # c /\ elementsRead(node.importClause.namedBindings) # "array"

\* the property the loader's continuation reads, NoName for a bare import
arrowBody(node, defaultImportName, c) ==
  IF defaultImportName # c
    THEN LET elements == node.importClause.namedBindings.elements
             k == findElement(elements, c)
         IN IF k # 0 THEN escapedText(exportedName(elements[k])) ELSE NoName
    ELSE NoName

lazyStatement(node, defaultImportName, c) ==
  VariableStatement(c, node.moduleSpecifier, arrowBody(node, defaultImportName, c))

\* the injected import pushed behind the lazy declarations
withAdditionalImportLast(lazies, opts) ==
  IF opts.createImportDeclaration THEN lazies \o <<AdditionalImport>> ELSE lazies

\* additionalStatements.unshift(additionalImport) when there is one
withAdditionalImport(lazies, opts) ==
  IF opts.createImportDeclaration THEN <<AdditionalImport>> \o lazies ELSE lazies

\* visitNode from the classification on: the statement is a candidate and
\* shouldRewrite allowed it; `asked` are the calls made so far
rewriteImport(node, opts, asked) ==
  LET clause == node.importClause
      defaultImportName ==
        IF clause.name # NoName THEN escapedText(clause.name) ELSE NoName
      componentNames == getImportedReactComponents(node, opts)
      classified == asked \o classificationCalls(node, opts)
  IN
  IF Len(componentNames) > 0 THEN
    LET defaultName ==
          IF defaultImportName # NoName /\ includes(componentNames, defaultImportName)
            THEN NoName ELSE defaultImportName
        throwing == {i \in 1..Len(componentNames) :
                       arrowBodyThrows(node, defaultImportName, componentNames[i])}
        mapped == IF throwing = {} THEN Len(componentNames)
                  ELSE (CHOOSE i \in throwing : \A j \in throwing : i <= j) - 1
        wrapped == classified \o
                   [i \in 1..mapped |->
                      Call("createComponentWrapperExpression", node.pos, componentNames[i])]
    IN
    IF throwing # {} THEN Throw(wrapped)
    ELSE
      LET lazies == [i \in 1..Len(componentNames) |->
                       lazyStatement(node, defaultImportName, componentNames[i])]
          made == wrapped \o <<Call("createImportDeclaration", node.pos, NoName)>>
          additionalStatements == withAdditionalImport(lazies, opts)
          fromName ==
            IF clause.name # NoName /\ includes(componentNames, escapedText(clause.name))
              THEN 1 ELSE 0
      IN
      IF clause.namedBindings.kind # "none"
         /\ elementsRead(clause.namedBindings) # "array"
      THEN Throw(made)
      ELSE
        LET importedNames ==
              fromName + (IF clause.namedBindings.kind # "none"
                            THEN Len(clause.namedBindings.elements) ELSE 0)
        IN
        IF importedNames = Len(componentNames) THEN ReturnArray(additionalStatements, made)
        ELSE IF ~opts.onlyRewriteIfImportCanBeRemoved THEN
          ReturnArray(
            additionalStatements \o
            <<ImportDeclaration(-1,
                ImportClause(defaultName,
                  IF clause.namedBindings.kind # "none"
                    THEN removeImportNames(clause.namedBindings, componentNames)
                    ELSE NoBindings),
                node.moduleSpecifier)>>,
            made)
        ELSE ReturnNode(node, made)
  ELSE ReturnNode(node, classified)

\* the test with the membership in potentialComponentImports left out
isImportWithClause(node, potentials) ==
  isImportDeclaration(node) /\ node.importClause.present

\* the condition under which visitNode looks at a node: an import
\* declaration that is one of potentialComponentImports and has a clause
isSelectedImport(node, potentials) ==
  isImportDeclaration(node) /\ includes(potentials, node) /\ node.importClause.present

\* visitNode with the hook consulted only after the classification
visitNodeHookLast(node, potentials, fileName, opts) ==
  IF isSelectedImport(node, potentials)
  THEN
    LET rewritten == rewriteImport(node, opts, <<>>)
        made == rewritten.calls \o <<Call("shouldRewrite", node.pos, NoName)>>
    IN IF ~opts.shouldRewrite[node.moduleSpecifier] THEN ReturnNode(node, made)
       ELSE [rewritten EXCEPT !.calls = made]
  ELSE ReturnNode(node, <<>>)

visitNode(node, potentials, fileName, opts) ==
  IF isSelectedImport(node, potentials)
  THEN
    LET asked == <<Call("shouldRewrite", node.pos, NoName)>> IN
    IF ~opts.shouldRewrite[node.moduleSpecifier] THEN ReturnNode(node, asked)
    ELSE rewriteImport(node, opts, asked)
  ELSE ReturnNode(node, <<>>)

\* the nodes inside what visitNode returned: an array of statements has no
\* children to visit
childrenOf(visitedNode) ==
  IF visitedNode.kind = "node" THEN visitedNode.nodes[1].body ELSE <<>>

\* what visitNodeAndChildren returns, given what visitNode returned and the
\* result of visiting the children: an array or a throw as it is, a node
\* with the visited children as its body
withVisitedChildren(visitedNode, children) ==
  LET made == visitedNode.calls \o children.calls IN
  IF visitedNode.kind = "throw" \/ children.kind = "throw" THEN Throw(made)
  ELSE IF visitedNode.kind = "array" THEN visitedNode
  ELSE ReturnNode([visitedNode.nodes[1] EXCEPT !.body = children.nodes], made)

\* the results of two visits spliced into one list; a throw ends the walk
spliceVisited(first, rest) ==
  IF first.kind = "throw" THEN first
  ELSE IF rest.kind = "throw" THEN Throw(first.calls \o rest.calls)
  ELSE ReturnArray(first.nodes \o rest.nodes, first.calls \o rest.calls)

\* ts.visitEachChild with visitNodeAndChildren as the visitor, over the
\* nodes inside a node: each is given to visitNode and has its own nested
\* nodes visited in turn
RECURSIVE visitEachChild(_, _, _, _)
visitEachChild(body, potentials, fileName, opts) ==
  IF body = <<>> THEN ReturnArray(<<>>, <<>>)
  ELSE spliceVisited(
         withVisitedChildren(
           visitNode(Head(body), potentials, fileName, opts),
           visitEachChild(childrenOf(visitNode(Head(body), potentials, fileName, opts)),
                          potentials, fileName, opts)),
         visitEachChild(Tail(body), potentials, fileName, opts))

\* visitNodeAndChildren: visitNode on the node, then ts.visitEachChild on
\* what it returned
visitNodeAndChildren(node, potentials, fileName, opts) ==
  withVisitedChildren(
    visitNode(node, potentials, fileName, opts),
    visitEachChild(childrenOf(visitNode(node, potentials, fileName, opts)),
                   potentials, fileName, opts))

(***************************************************************************)
(* The gate and the candidate selection of visitSourceFile.                *)
(***************************************************************************)
importsOf(statements) == SelectSeq(statements, isImportDeclaration)

\* the gate opened by an import of any module
hasAnyImport(statements) ==
  \E i \in 1..Len(statements) : isImportDeclaration(statements[i])

hasReactImport(statements) ==
  \E i \in 1..Len(statements) :
    isImportDeclaration(statements[i]) /\ statements[i].moduleSpecifier = "react"

isDeclarationFile(fileName) == indexOf(fileName, dotDTs) # -1

leadsUppercase(text) == text[1] = toUpperCase(text[1])

isPotentialComponentImport(i) ==
  \/ i.importClause.present /\ i.importClause.name # NoName
     /\ leadsUppercase(i.importClause.name)
  \/ i.importClause.present /\ isNamedImports(i.importClause.namedBindings)
     /\ \E k \in 1..Len(i.importClause.namedBindings.elements) :
          leadsUppercase(i.importClause.namedBindings.elements[k].name)

selectPotentialComponentImports(statements) ==
  SelectSeq(importsOf(statements), isPotentialComponentImport)

(***************************************************************************)
(* The inputs: source files, options and the checker's verdicts.           *)
(***************************************************************************)
SeqsUpTo(S, n) == UNION {[1..k -> S] : k \in 0..n}

localNames(clause) ==
  (IF clause.name # NoName THEN <<clause.name>> ELSE <<>>)
  \o (IF clause.namedBindings.kind = "NamespaceImport"
        THEN <<clause.namedBindings.name>> ELSE <<>>)
  \o [k \in 1..Len(clause.namedBindings.elements) |-> clause.namedBindings.elements[k].name]

distinct(seq) == \A i, j \in 1..Len(seq) : i # j => seq[i] # seq[j]

Elements ==
  {ImportSpecifier(p, n) : p \in Names \cup {NoName}, n \in Names} \
  {ImportSpecifier(n, n) : n \in Names}

Bindings ==
  {NoBindings, NamespaceImport(nNS)}
  \cup {NamedImports(es) : es \in SeqsUpTo(Elements, MaxElems)}

\* the import clauses a compiling program can contain: they bind at least
\* a default name or a binding list, and no local name twice
Clauses ==
  {c \in {ImportClause(n, b) : n \in Names \cup {NoName}, b \in Bindings} :
     /\ ~(c.name = NoName /\ c.namedBindings = NoBindings)
     /\ distinct(localNames(c))}

\* the statements that can stand in front of the import under study
ReactImport(pos) == ImportDeclaration(pos, ImportClause(NoName, NamespaceImport(nReact)), "react")
ReactDefaultImport(pos) == ImportDeclaration(pos, ImportClause(nReact, NoBindings), "react")
LeadKinds == {"react", "reactDefault", "other"}
lead(kind, pos) ==
  CASE kind = "react" -> ReactImport(pos)
    [] kind = "reactDefault" -> ReactDefaultImport(pos)
    [] OTHER -> OtherStatement(pos)

SourceFiles ==
  {[fileName |-> f,
    statements |-> [i \in 1..(Len(pre) + 1) |->
                      IF i <= Len(pre) THEN lead(pre[i], i)
                      ELSE ImportDeclaration(i, c, "./m")]] :
     f \in FileNames, pre \in SeqsUpTo(LeadKinds, MaxPre), c \in Clauses \cup {NoClause}}

\* the exports of "./m" the file's import refers to
referencedExports(file) ==
  LET clause == file.statements[Len(file.statements)].importClause
  IN (IF clause.name # NoName THEN {nDefault} ELSE {})
     \cup {exportedName(clause.namedBindings.elements[k]) :
             k \in 1..Len(clause.namedBindings.elements)}

hasReactDefault(file) ==
  \E i \in 1..Len(file.statements) : file.statements[i] = ReactDefaultImport(i)

\* the return type symbols, the extends expressions and the declarations
\* the type checker can report
JSXElement == TypeSymbol("Element", "JSX")
ReturnTypes == {JSXElement, TypeSymbol("Element", ""), TypeSymbol("Element", "Other"),
                TypeSymbol("IntrinsicElements", "JSX"), NoSymbol}
Bases == {Extends("React", "Component"), Extends("React", "PureComponent"),
          Extends("Preact", "Component"), Extends("", "Component"), Extends("", "Base")}
Signatures == SeqsUpTo(ReturnTypes, MaxSignatures) \ {<<>>}

Declarations ==
  {Declaration("ClassDeclaration", h, NoExtends, "none", 0, <<>>) : h \in {"none", "implements"}}
  \cup {Declaration("ClassDeclaration", "extends", b, "none", 0, <<>>) : b \in Bases}
  \cup {Declaration("FunctionDeclaration", "none", NoExtends, "none", n, sigs) :
          n \in 0..MaxParams, sigs \in Signatures}
  \cup {Declaration(k, "none", NoExtends, i, n, sigs) :
          k \in {"ExportAssignment", "VariableDeclaration", "VariableStatement"},
          i \in {"ArrowFunction", "FunctionExpression"},
          n \in 0..MaxParams, sigs \in Signatures}
  \cup {Declaration(k, "none", NoExtends, "Identifier", 0, sigs) :
          k \in {"ExportAssignment", "VariableDeclaration", "VariableStatement"},
          sigs \in Signatures}
  \cup {Declaration(k, "none", NoExtends, "Literal", 0, <<>>) :
          k \in {"ExportAssignment", "VariableDeclaration", "VariableStatement"}}
  \cup {Declaration(k, "none", NoExtends, "none", 0, <<>>) :
          k \in {"VariableDeclaration", "VariableStatement"}}
  \cup {Declaration(k, "none", NoExtends, "none", 0, <<>>) :
          k \in {"InterfaceDeclaration", "EnumDeclaration"}}

\* `export function X(props) { return <p/> }` and `export const X = "123"`
ComponentDeclaration ==
  Declaration("FunctionDeclaration", "none", NoExtends, "none", 1, <<JSXElement>>)
ConstDeclaration ==
  Declaration("VariableDeclaration", "none", NoExtends, "Literal", 0, <<>>)

Module(resolved, exports) == [resolved |-> resolved, exports |-> exports]
Program(supplied, exportsOfM) ==
  [supplied |-> supplied,
   modules |-> [m \in ModuleSpecifiers |->
                  IF m = "./m" THEN exportsOfM ELSE Module(TRUE, <<>>)]]
\* transformer called without a program
NoProgram == Program(FALSE, Module(FALSE, <<>>))

Init ==
  /\ sourceFile \in SourceFiles
  /\ options \in [onlyRewriteDefaultExports : BOOLEAN,
                  onlyRewriteIfImportCanBeRemoved : BOOLEAN,
                  createImportDeclaration : BOOLEAN,
                  shouldRewrite : [ModuleSpecifiers -> BOOLEAN]]
  /\ hasReactDefault(sourceFile) \/ options.shouldRewrite["react"]
  /\ program \in {Program(TRUE, Module(TRUE, e)) :
                    e \in [referencedExports(sourceFile) ->
                            {ComponentDeclaration, ConstDeclaration}]}
  /\ pc = "transformer"
  /\ potentialComponentImports = <<>>
  /\ next = 1
  /\ returns = <<>>
  /\ out = <<>>
  /\ calls = <<>>

(***************************************************************************)
(* The transform of one source file.                                       *)
(***************************************************************************)
\* a test of the program that never finds it missing
neverMissing(prog) == FALSE

\* !program
missingProgram(prog) == ~prog.supplied

\* the call transformer(program, options): it throws when no program is
\* passed, and returns the factory that visits the source file otherwise
Transformer ==
  /\ pc = "transformer"
  /\ pc' = IF missingProgram(program) THEN "error" ELSE "visitSourceFile"
  /\ UNCHANGED <<sourceFile, options, program, potentialComponentImports, next,
                 returns, out, calls>>

\* visitSourceFile up to the walk: the gate and the candidate selection
VisitSourceFile ==
  /\ pc = "visitSourceFile"
  /\ IF hasReactImport(sourceFile.statements) /\ ~isDeclarationFile(sourceFile.fileName)
        /\ Len(selectPotentialComponentImports(sourceFile.statements)) > 0
       THEN /\ potentialComponentImports' = selectPotentialComponentImports(sourceFile.statements)
            /\ pc' = "visitEachChild"
            /\ out' = <<>>
       ELSE /\ potentialComponentImports' = potentialComponentImports
            /\ pc' = "returned"
            /\ out' = sourceFile.statements
  /\ UNCHANGED <<sourceFile, options, program, next, returns, calls>>

\* visitNodeAndChildren on the next top-level statement; what it returns
\* is spliced into the new statement list
VisitNodeAndChildren ==
  /\ pc = "visitEachChild"
  /\ next <= Len(sourceFile.statements)
  /\ LET visited == visitNodeAndChildren(sourceFile.statements[next],
                                         potentialComponentImports,
                                         sourceFile.fileName, options)
     IN /\ calls' = calls \o visited.calls
        /\ returns' = Append(returns, [kind |-> visited.kind, nodes |-> visited.nodes])
        /\ IF visited.kind = "throw"
             THEN pc' = "threw" /\ out' = <<>> /\ next' = next
             ELSE pc' = pc /\ out' = out \o visited.nodes /\ next' = next + 1
  /\ UNCHANGED <<sourceFile, options, program, potentialComponentImports>>

\* the walk is over: visitSourceFile returns the transformed file
ReturnTransformed ==
  /\ pc = "visitEachChild"
  /\ next > Len(sourceFile.statements)
  /\ pc' = "returned"
  /\ UNCHANGED <<sourceFile, options, program, potentialComponentImports, next,
                 returns, out, calls>>

Next == Transformer \/ VisitSourceFile \/ VisitNodeAndChildren \/ ReturnTransformed

Spec == Init /\ [][Next]_vars

(***************************************************************************)
(* Classification specification: one file that imports react and binds one *)
(* uppercase-led name from "./m", under the default options; the module    *)
(* "./m" and the declaration behind the imported name range over all the   *)
(* type checker can report.                                                *)
(***************************************************************************)
defaultOptions ==
  [onlyRewriteDefaultExports |-> FALSE,
   onlyRewriteIfImportCanBeRemoved |-> FALSE,
   createImportDeclaration |-> FALSE,
   shouldRewrite |-> [m \in ModuleSpecifiers |-> TRUE]]

tsxFile == <<"a", ".", "t", "s", "x">>

InitClassify ==
  /\ sourceFile \in
       {[fileName |-> tsxFile,
         statements |-> <<ReactImport(1), ImportDeclaration(2, c, "./m")>>] :
          c \in {ImportClause(nFoo, NoBindings),
                 ImportClause(NoName, NamedImports(<<ImportSpecifier(NoName, nFoo)>>)),
                 ImportClause(NoName, NamedImports(<<ImportSpecifier(nHlp, nFoo)>>))}}
  /\ options = defaultOptions
  /\ program \in
       {Program(TRUE, Module(TRUE, e)) :
          e \in [referencedExports(sourceFile) -> Declarations]}
       \cup {Program(TRUE, Module(r, <<>>)) : r \in BOOLEAN}
  /\ pc = "transformer"
  /\ potentialComponentImports = <<>>
  /\ next = 1
  /\ returns = <<>>
  /\ out = <<>>
  /\ calls = <<>>

SpecClassify == InitClassify /\ [][Next]_vars


(***************************************************************************)
(* Walk specification: files of up to MaxStmts statements of every sort    *)
(* (the react import in both forms, statements that are no imports, a      *)
(* statement with an import nested in it, and imports from "./m" that bind *)
(* a default name, an uppercase-led and a lowercase-led name, a            *)
(* lowercase-led name only, or nothing), a program in which each of the    *)
(* exports of "./m" is a component or a constant, or no program at all.    *)
(***************************************************************************)
importFoo(pos) == ImportDeclaration(pos, ImportClause(nFoo, NoBindings), "./m")
WalkKinds == {"react", "reactDefault", "other", "nested", "default", "named",
              "lowercase", "bare"}
walkStatement(kind, pos) ==
  CASE kind = "react" -> ReactImport(pos)
    [] kind = "reactDefault" -> ReactDefaultImport(pos)
    [] kind = "other" -> OtherStatement(pos)
    [] kind = "nested" -> ModuleDeclaration(pos, <<importFoo(10 * pos + 1)>>)
    [] kind = "default" -> importFoo(pos)
    [] kind = "named" ->
         ImportDeclaration(pos,
           ImportClause(NoName, NamedImports(<<ImportSpecifier(NoName, nFoo),
                                               ImportSpecifier(NoName, nHlp)>>)),
           "./m")
    [] kind = "lowercase" ->
         ImportDeclaration(pos,
           ImportClause(NoName, NamedImports(<<ImportSpecifier(NoName, nHlp)>>)), "./m")
    [] OTHER -> ImportDeclaration(pos, NoClause, "./m")

WalkFiles ==
  {[fileName |-> tsxFile,
    statements |-> [i \in 1..Len(kinds) |-> walkStatement(kinds[i], i)]] :
     kinds \in SeqsUpTo(WalkKinds, MaxStmts) \ {<<>>}}

InitWalk ==
  /\ sourceFile \in WalkFiles
  /\ options \in [onlyRewriteDefaultExports : {FALSE},
                  onlyRewriteIfImportCanBeRemoved : BOOLEAN,
                  createImportDeclaration : BOOLEAN,
                  shouldRewrite : {[m \in ModuleSpecifiers |-> TRUE]}]
  /\ program \in
       {Program(TRUE, Module(TRUE, e)) :
          e \in [{nDefault, nFoo, nHlp} -> {ComponentDeclaration, ConstDeclaration}]}
       \cup {NoProgram}
  /\ pc = "transformer"
  /\ potentialComponentImports = <<>>
  /\ next = 1
  /\ returns = <<>>
  /\ out = <<>>
  /\ calls = <<>>

SpecWalk == InitWalk /\ [][Next]_vars

(***************************************************************************)
(* Vocabulary of the properties.  The import statement under study is the  *)
(* last statement of the file.  A name is classified when the checker's    *)
(* verdict on its export is "component" and the options let it be asked.   *)
(***************************************************************************)
target == sourceFile.statements[Len(sourceFile.statements)]
targetVisited == Len(returns) = Len(sourceFile.statements)
targetReturn == returns[Len(sourceFile.statements)]
targetRewritten == targetVisited /\ targetReturn.kind = "array"
targetCalls == SelectSeq(calls, LAMBDA c : c.pos = target.pos)

originalName(e) == IF e.propertyName = NoName THEN e.name ELSE e.propertyName
targetElements == target.importClause.namedBindings.elements

\* the classification rule as the specification words it: the module and
\* the export resolve to a value declaration that is a class extending
\* React.Component, or a function of one or two parameters whose first call
\* signature returns JSX.Element
isClassComponent(d) ==
  d.kind = "ClassDeclaration" /\ d.heritage = "extends" /\ d.base = Extends("React", "Component")
isFunctionComponent(d) ==
  /\ \/ d.kind = "FunctionDeclaration"
     \/ /\ d.kind \in {"ExportAssignment", "VariableDeclaration", "VariableStatement"}
        /\ d.initializer \in {"ArrowFunction", "FunctionExpression"}
  /\ d.parameters \in {1, 2}
  /\ d.callSignatures # <<>>
  /\ Head(d.callSignatures) = TypeSymbol("Element", "JSX")
isComponentExport(specifier, identifier) ==
  LET m == program.modules[specifier] IN
  /\ m.resolved
  /\ identifier \in DOMAIN m.exports
  /\ m.exports[identifier].kind # "InterfaceDeclaration"
  /\ isClassComponent(m.exports[identifier]) \/ isFunctionComponent(m.exports[identifier])

defaultClassified ==
  target.importClause.name # NoName /\ isComponentExport(target.moduleSpecifier, nDefault)
elementClassified(e) ==
  /\ ~options.onlyRewriteDefaultExports
  /\ isComponentExport(target.moduleSpecifier, originalName(e))

\* the statement reached classification: it is a candidate the hook allowed
targetClassifies ==
  /\ includes(potentialComponentImports, target)
  /\ options.shouldRewrite[target.moduleSpecifier]

hasUnclassifiedBinding ==
  \/ target.importClause.name # NoName /\ ~defaultClassified
  \/ \E k \in 1..Len(targetElements) : ~elementClassified(targetElements[k])

allBindingsClassified ==
  /\ target.importClause.present
  /\ target.importClause.namedBindings.kind # "NamespaceImport"
  /\ localNames(target.importClause) # <<>>
  /\ target.importClause.name # NoName => defaultClassified
  /\ \A k \in 1..Len(targetElements) : elementClassified(targetElements[k])

isLazy(node) == node.kind = "VariableStatement"
isResidual(node) == node.kind = "ImportDeclaration"
lazyDeclarations(nodes) == SelectSeq(nodes, isLazy)
residualImports(nodes) == SelectSeq(nodes, isResidual)

\* the local names a statement list binds, the injected import left out
RECURSIVE boundNames(_)
boundNames(nodes) ==
  IF nodes = <<>> THEN <<>>
  ELSE (CASE isLazy(Head(nodes)) -> <<Head(nodes).declName>>
          [] isResidual(Head(nodes)) -> localNames(Head(nodes).importClause)
          [] OTHER -> <<>>)
       \o boundNames(Tail(nodes))

Count(seq, x) == Cardinality({i \in 1..Len(seq) : seq[i] = x})
SameBag(a, b) ==
  \A x \in {a[i] : i \in 1..Len(a)} \cup {b[i] : i \in 1..Len(b)} : Count(a, x) = Count(b, x)

\* C1 (name preservation): whenever visitNode rewrites the import statement,
\* the output statements bind exactly the local names the original bound,
\* each as often as the original did.
C1_NamePreservation ==
  targetRewritten =>
    SameBag(boundNames(targetReturn.nodes), localNames(target.importClause))

\* C2 (partial bail-out): with onlyRewriteIfImportCanBeRemoved set, an import
\* statement with a default name or named binding that is not classified
\* comes back as the original node, with no lazy declaration and no injected
\* import.
C2_PartialBailOut ==
  (targetVisited /\ options.onlyRewriteIfImportCanBeRemoved /\ hasUnclassifiedBinding)
    => targetReturn.kind = "node" /\ targetReturn.nodes = <<target>>

\* C3 (residual import content): a rewritten statement with unclassified
\* bindings, onlyRewriteIfImportCanBeRemoved off, ends with exactly one
\* residual import from the same module whose default name is the original
\* one iff it was not classified and whose elements are the original
\* elements that were not classified, in order and with their aliases.
C3_ResidualImportContent ==
  (targetRewritten /\ hasUnclassifiedBinding /\ ~options.onlyRewriteIfImportCanBeRemoved)
    => LET nodes == targetReturn.nodes
           last == nodes[Len(nodes)]
       IN /\ Len(residualImports(nodes)) = 1
          /\ isResidual(last)
          /\ last.moduleSpecifier = target.moduleSpecifier
          /\ last.importClause.name =
               (IF defaultClassified THEN NoName ELSE target.importClause.name)
          /\ last.importClause.namedBindings.elements =
               SelectSeq(targetElements, LAMBDA e : ~elementClassified(e))

\* C4 (full-removal collapse): when every name the statement binds is
\* classified, the output is the optional injected import followed by one
\* lazy declaration per bound name, and no residual import.
C4_FullRemovalCollapse ==
  (targetVisited /\ targetClassifies /\ allBindingsClassified)
    => /\ targetReturn.kind = "array"
       /\ residualImports(targetReturn.nodes) = <<>>
       /\ targetReturn.nodes =
            (IF options.createImportDeclaration THEN <<AdditionalImport>> ELSE <<>>)
            \o lazyDeclarations(targetReturn.nodes)
       /\ boundNames(targetReturn.nodes) = localNames(target.importClause)


isCandidate(st) == includes(potentialComponentImports, st)
callsAt(pos) == SelectSeq(calls, LAMBDA c : c.pos = pos)
someBindingClassified ==
  defaultClassified \/ \E k \in 1..Len(targetElements) : elementClassified(targetElements[k])

\* C5 (opt-out hook): for every candidate statement visited, shouldRewrite is
\* consulted exactly once and before every other call made for it; when it
\* answers false the statement comes back as the original node and neither
\* the checker, createImportDeclaration nor createComponentWrapperExpression
\* is called for it.
C5_OptOutHook ==
  \A i \in 1..Len(returns) :
    LET st == sourceFile.statements[i]
        made == callsAt(st.pos)
        hook == Call("shouldRewrite", st.pos, NoName)
    IN isCandidate(st) =>
         /\ Count(made, hook) = 1
         /\ made[1] = hook
         /\ ~options.shouldRewrite[st.moduleSpecifier] =>
              /\ made = <<hook>>
              /\ returns[i].kind = "node"
              /\ returns[i].nodes = <<st>>

\* C5 witness: a candidate whose bindings the checker would classify was
\* visited and the hook refused it.
C5_Witness ==
  /\ targetVisited
  /\ isCandidate(target)
  /\ ~options.shouldRewrite[target.moduleSpecifier]
  /\ someBindingClassified

isAliased(e) == e.propertyName # NoName
namedClassificationCalls ==
  SelectSeq(targetCalls, LAMBDA c : c.op = "isComponentType" /\ c.identifier # nDefault)

\* C6 (aliased named import): the checker is asked about the exported name of
\* every named binding, and for `{ Foo as Bar }` with Foo classified the
\* lazy declaration binds Bar and its continuation reads the property Foo.
C6_AliasedNamedImport ==
  /\ (targetVisited /\ targetClassifies /\ ~options.onlyRewriteDefaultExports)
       => namedClassificationCalls =
            [k \in 1..Len(targetElements) |->
               Call("isComponentType", target.pos, originalName(targetElements[k]))]
  /\ targetRewritten =>
       \A k \in 1..Len(targetElements) :
         LET e == targetElements[k]
             lazies == lazyDeclarations(targetReturn.nodes)
         IN (isAliased(e) /\ elementClassified(e)) =>
              /\ \E j \in 1..Len(lazies) :
                   lazies[j].declName = e.name /\ lazies[j].thenProperty = e.propertyName
              /\ \A j \in 1..Len(lazies) :
                   lazies[j].declName = e.name => lazies[j].thenProperty = e.propertyName

\* C7 (default vs. named): in a rewritten statement the lazy declaration of
\* the classified default name has the bare dynamic import as loader, and
\* the lazy declaration of every classified named binding has a continuation
\* that reads the exported name.
C7_DefaultVersusNamed ==
  targetRewritten =>
    LET lazies == lazyDeclarations(targetReturn.nodes)
    IN /\ defaultClassified =>
            \E j \in 1..Len(lazies) :
              lazies[j].declName = target.importClause.name /\ lazies[j].thenProperty = NoName
       /\ \A k \in 1..Len(targetElements) :
            elementClassified(targetElements[k]) =>
              \E j \in 1..Len(lazies) :
                /\ lazies[j].declName = targetElements[k].name
                /\ lazies[j].thenProperty = originalName(targetElements[k])
       /\ \A j \in 1..Len(lazies) :
            \/ /\ defaultClassified
               /\ lazies[j].declName = target.importClause.name
               /\ lazies[j].thenProperty = NoName
            \/ \E k \in 1..Len(targetElements) :
                 /\ elementClassified(targetElements[k])
                 /\ lazies[j].declName = targetElements[k].name
                 /\ lazies[j].thenProperty = originalName(targetElements[k])

importsReact ==
  \E i \in 1..Len(sourceFile.statements) :
    /\ sourceFile.statements[i].kind = "ImportDeclaration"
    /\ sourceFile.statements[i].moduleSpecifier = "react"
endsWithDTs ==
  /\ Len(sourceFile.fileName) >= 5
  /\ SubSeq(sourceFile.fileName, Len(sourceFile.fileName) - 4, Len(sourceFile.fileName))
       = <<".", "d", ".", "t", "s">>

\* C8 (module gate): a file with no import from "react", and a .d.ts file,
\* is never walked: no collaborator is called and the statements returned
\* are the input statements.
C8_ModuleGate ==
  (~importsReact \/ endsWithDTs) =>
    /\ pc \in {"transformer", "visitSourceFile", "returned"}
    /\ calls = <<>>
    /\ pc = "returned" => out = sourceFile.statements

\* C8 witness: a file without a react import came back, though its import
\* binds an uppercase-led name the checker would classify.
C8_Witness ==
  /\ pc = "returned"
  /\ ~importsReact
  /\ ~endsWithDTs
  /\ isPotentialComponentImport(target)
  /\ options.shouldRewrite[target.moduleSpecifier]
  /\ someBindingClassified

UppercaseLetters ==
  {"A", "B", "C", "D", "E", "F", "G", "H", "I", "J", "K", "L", "M",
   "N", "O", "P", "Q", "R", "S", "T", "U", "V", "W", "X", "Y", "Z"}
bindsUppercaseLed(st) ==
  \/ st.importClause.name # NoName /\ st.importClause.name[1] \in UppercaseLetters
  \/ \E k \in 1..Len(st.importClause.namedBindings.elements) :
       st.importClause.namedBindings.elements[k].name[1] \in UppercaseLetters

\* C9 (no uppercase-led bindings): a file that imports react and in which no
\* import binds a default name or named-binding name led by an uppercase
\* letter comes back with its statements unchanged.
C9_NoUppercaseNoRewrite ==
  (/\ pc \in {"returned", "threw"}
   /\ importsReact
   /\ \A i \in 1..Len(sourceFile.statements) : ~bindsUppercaseLed(sourceFile.statements[i]))
    => pc = "returned" /\ out = sourceFile.statements

\* C10 (onlyRewriteDefaultExports): with the option set the checker is never
\* asked about a named binding, only the default name gets a lazy
\* declaration, and a rewritten statement keeps every named binding in its
\* residual import.
C10_OnlyDefaultExports ==
  (targetVisited /\ options.onlyRewriteDefaultExports) =>
    /\ namedClassificationCalls = <<>>
    /\ targetRewritten =>
         LET nodes == targetReturn.nodes
             lazies == lazyDeclarations(nodes)
         IN /\ \A j \in 1..Len(lazies) : lazies[j].declName = target.importClause.name
            /\ targetElements # <<>> =>
                 /\ isResidual(nodes[Len(nodes)])
                 /\ nodes[Len(nodes)].importClause.namedBindings.elements = targetElements


theExport == program.modules[target.moduleSpecifier].exports

\* C12 (component classification): the imported name is classified, and its
\* import rewritten, exactly when the module resolves and the export has a
\* value declaration that is a class extending React.Component or a function
\* (declaration, function expression or arrow function) of one or two
\* parameters whose first call signature returns JSX.Element; unresolved
\* modules, missing exports, classes extending anything else and functions
\* of zero or three and more parameters are not classified.
C12_ComponentClassification ==
  (targetVisited /\ targetClassifies) =>
    /\ (targetReturn.kind = "array") <=> someBindingClassified
    /\ (targetReturn.kind = "node") <=> ~someBindingClassified

\* C12 witness: an arrow function of two parameters returning JSX.Element
\* was classified and its import rewritten.
C12_Witness ==
  /\ targetRewritten
  /\ \E id \in DOMAIN theExport :
       /\ theExport[id].initializer = "ArrowFunction"
       /\ theExport[id].parameters = 2


\* C11 (injected import): in every rewritten statement the statement that
\* createImportDeclaration returned comes first and occurs once, however
\* many lazy declarations follow; when createImportDeclaration returns null
\* the output has no injected import.
C11_InjectedImport ==
  \A i \in 1..Len(returns) :
    returns[i].kind = "array" =>
      IF options.createImportDeclaration
        THEN /\ returns[i].nodes[1] = AdditionalImport
             /\ Count(returns[i].nodes, AdditionalImport) = 1
        ELSE Count(returns[i].nodes, AdditionalImport) = 0

\* C11 witness: a statement rewritten into two lazy declarations with an
\* injected import configured.
C11_Witness ==
  /\ targetRewritten
  /\ options.createImportDeclaration
  /\ Len(lazyDeclarations(targetReturn.nodes)) = 2

\* the classified names of the statement under study, in source order
classifiedInOrder ==
  (IF defaultClassified THEN <<target.importClause.name>> ELSE <<>>)
  \o [k \in 1..Len(SelectSeq(targetElements, elementClassified)) |->
        SelectSeq(targetElements, elementClassified)[k].name]

\* C14 (lazy declaration order and count): a rewritten statement has one
\* lazy declaration per classified name, the default name first and then
\* the classified named bindings in their declared order.
C14_LazyDeclarationOrder ==
  targetRewritten =>
    LET lazies == lazyDeclarations(targetReturn.nodes)
    IN [j \in 1..Len(lazies) |-> lazies[j].declName] = classifiedInOrder

\* C14 witness: a rewritten statement whose default name and a named binding
\* are both classified.
C14_Witness ==
  /\ targetRewritten
  /\ defaultClassified
  /\ \E k \in 1..Len(targetElements) : elementClassified(targetElements[k])


\* C16 (rewrite totality over import shapes): no visit of a statement raises
\* an error, whatever the clause shape and the classification; and the
\* result of visiting `import D, * as NS from "m"` still binds NS.
C16_RewriteTotality ==
  /\ pc # "threw"
  /\ \A i \in 1..Len(returns) : returns[i].kind # "throw"
  /\ (targetVisited /\ target.importClause.namedBindings.kind = "NamespaceImport")
       => includes(boundNames(targetReturn.nodes), nNS)


LowercaseLetters ==
  {"a", "b", "c", "d", "e", "f", "g", "h", "i", "j", "k", "l", "m",
   "n", "o", "p", "q", "r", "s", "t", "u", "v", "w", "x", "y", "z"}
lazyNames(nodes) ==
  {lazyDeclarations(nodes)[j].declName : j \in 1..Len(lazyDeclarations(nodes))}

\* C17 (only uppercase-led names become lazy), as claimed: every lazy
\* declaration of a rewritten statement binds a name led by an uppercase
\* letter, so a lowercase-led named binding next to an uppercase-led one is
\* never made lazy.
C17_OnlyUppercaseLedLazy ==
  targetRewritten =>
    \A n \in lazyNames(targetReturn.nodes) : n[1] \in UppercaseLetters

\* C17 as it holds: the case of the first character decides which statements
\* are candidates, not which of their bindings become lazy. Every lazy
\* declaration of a rewritten statement binds a local name of that statement
\* whose export classifies, and a lowercase-led named binding of a rewritten
\* statement is made lazy exactly when its export classifies.
C17_ClassifiedBindingsLazy ==
  targetRewritten =>
    /\ \A n \in lazyNames(targetReturn.nodes) :
         \/ n = target.importClause.name /\ defaultClassified
         \/ \E k \in 1..Len(targetElements) :
              targetElements[k].name = n /\ elementClassified(targetElements[k])
    /\ \A k \in 1..Len(targetElements) :
         targetElements[k].name[1] \in LowercaseLetters =>
           (targetElements[k].name \in lazyNames(targetReturn.nodes)
              <=> elementClassified(targetElements[k]))

\* C17 witness: a rewritten statement that binds the uppercase-led Foo and
\* the lowercase-led hlp as named bindings, with a lazy declaration of hlp.
C17_Witness ==
  /\ targetRewritten
  /\ \E k \in 1..Len(targetElements) : targetElements[k].name = nFoo
  /\ \E k \in 1..Len(targetElements) : targetElements[k].name = nHlp
  /\ nHlp \in lazyNames(targetReturn.nodes)


RECURSIVE Flatten(_)
Flatten(seqs) == IF seqs = <<>> THEN <<>> ELSE Head(seqs) \o Flatten(Tail(seqs))

\* C13 (tree-walker frame): the statements of the returned file are the
\* original statements in their order, each one the original node unless it
\* is a top-level import selected as a candidate (never the react import,
\* never a nested node), and such an import stands replaced at its own
\* position by the statements its visit returned.
C13_TreeWalkerFrame ==
  pc = "returned" =>
    IF returns = <<>> THEN out = sourceFile.statements
    ELSE
      /\ Len(returns) = Len(sourceFile.statements)
      /\ out = Flatten([i \in 1..Len(returns) |-> returns[i].nodes])
      /\ \A i \in 1..Len(returns) :
           IF returns[i].kind = "array"
             THEN /\ isImportDeclaration(sourceFile.statements[i])
                  /\ isCandidate(sourceFile.statements[i])
                  /\ sourceFile.statements[i].moduleSpecifier # "react"
             ELSE returns[i].nodes = <<sourceFile.statements[i]>>

\* C13 witness: a returned file in which an import was replaced by two or
\* more statements and a later statement holds a nested import.
C13_Witness ==
  /\ pc = "returned"
  /\ \E i, j \in 1..Len(returns) :
       /\ i < j
       /\ returns[i].kind = "array"
       /\ Len(returns[i].nodes) >= 2
       /\ sourceFile.statements[j].kind = "ModuleDeclaration"

\* C15 (missing program is fatal at setup): without a program the call of
\* transformer ends in the error before any file is visited, nothing being
\* selected, asked, returned or emitted; with a program it never ends in
\* the error.
C15_MissingProgramFatal ==
  /\ ~program.supplied =>
       /\ pc \in {"transformer", "error"}
       /\ potentialComponentImports = <<>>
       /\ calls = <<>>
       /\ returns = <<>>
       /\ out = <<>>
  /\ program.supplied => pc # "error"

\* C15 witness: transformer was called without a program and threw.
C15_Witness == pc = "error" /\ ~program.supplied

====
